---- MODULE Spec2Model ----
\* Approval workflow of the student tutor bot: the Slack interaction
\* controller (handleInteraction, handleBlockActions, handleViewSubmission,
\* handleApproval, handleEditRequest), the Question collection, the Slack,
\* Telegram and Google Sheets services it calls.
\* A second specification, SpecIntake, follows one Telegram message through
\* processMessage and DeepseekService.generateAnswer.  SpecCallback delivers
\* every shape of request to handleInteraction, SpecPair interleaves the
\* handlers of two callbacks for two records, SpecExtract applies
\* GeminiService.extractTextFromImage to image paths, and SpecAnswer follows
\* one message from processMessage to the answer its reviewers send.
\*
\* Every await of a handler is one step of the model: the external call takes
\* effect (or fails) and the handler runs on to its next await.  Handlers of
\* different callbacks interleave at these steps, as they do on the Node.js
\* event loop.  External calls may fail at any time.
EXTENDS Integers, Sequences, FiniteSets, TLC

\* ------------------------------------------------------------------ bounds
\* Reviewer callbacks delivered to /slack/interactions in one behaviour.
MaxCallbacks == 2
\* Student questions received in one behaviour.
MaxQuestions == 1

\* ------------------------------------------------------------ value samples
Null == "null"
Undefined == "undefined"
Date == "date"
TempId == "temp"

\* Concurrent invocations of handleInteraction.
Handlers == {"h1", "h2"}
\* ObjectIds mongoose hands out, one per new Question document.
RecIds == {"r1", "r2"}
\* Slack message timestamps (ids of messages within a channel).
Ts == {"t1", "t2"}
Channels == {"C1", "C2"}
Reviewers == {"U1", "U2"}
\* payload.user.id of a callback: a reviewer's id, or undefined when the
\* payload's user object carries no id.
UserIds == Reviewers \cup {Undefined}
\* Texts a reviewer can submit in the edit form.
Texts == {"", "e1"}

\* process.env.SLACK_CHANNEL_ID as read by the SlackService constructor.
SlackChannelId == "C1"

VARIABLES
    store,             \* Question collection: persisted documents by _id
    issued,            \* ObjectIds already generated
    cards,             \* Slack messages by <<channel, ts>>
    views,             \* edit modals opened (views.open calls that succeeded)
    outbox,            \* messages telegramService.sendMessage delivered
    sheet,             \* rows appended to the spreadsheet
    sheetsInitialized, \* GoogleSheetsService.initialized
    edited,            \* records an edit-form submission has been saved for
    hs,                \* per handler: payload, position, locals, history
    callbacks,         \* callbacks received so far
    flow               \* the Telegram message being processed: position, locals, history

vars == <<store, issued, cards, views, outbox, sheet, sheetsInitialized, edited, hs,
          callbacks, flow>>

\* ------------------------------------------------------------- documents
\* A Question document (the fields the workflow reads or writes).
NewQuestion(accountId, accountName, question, answer) ==
    [accountId |-> accountId, accountName |-> accountName,
     question |-> question, answer |-> answer,
     editedAnswer |-> Null, isApproved |-> FALSE,
     approvedAt |-> Null, approvedBy |-> Null]

NoDoc == NewQuestion(Null, Null, Null, Null)

\* Variant: the edit button carries the student's name instead of the id.
ReviewCardEditByName(question, answer, recordId, studentName, isFromImage) ==
    [kind |-> "review", question |-> question, text |-> answer,
     approve_button |-> recordId, edited_button |-> studentName,
     from |-> studentName, source |-> IF isFromImage THEN "Image" ELSE "Text"]

\* A Slack message of the review channel: the review card with its two
\* buttons (both carry the record id), or the card as updateMessage leaves it.
ReviewCard(question, answer, recordId, studentName, isFromImage) ==
    [kind |-> "review", question |-> question, text |-> answer,
     approve_button |-> recordId, edited_button |-> recordId,
     from |-> studentName, source |-> IF isFromImage THEN "Image" ELSE "Text"]

ApprovedCard(text) ==
    [kind |-> "approved", question |-> Null, text |-> text,
     approve_button |-> Null, edited_button |-> Null,
     from |-> Null, source |-> Null]

NoCard == ApprovedCard(Null)

\* The inbound text messages of a behaviour, by the ObjectId their
\* Question document is given: msg.from.id, msg.from.first_name, msg.text,
\* and the answer generateAnswer resolves to.
Inbound(id) ==
    IF id = "r1"
    THEN [from |-> "s1", firstName |-> "Ann", text |-> "q1", answer |-> "a1"]
    ELSE [from |-> "s2", firstName |-> "Bob", text |-> "q2", answer |-> "a2"]

\* Variant: the query has no filter and resolves to the first document.
FindByIdResultFirst(id) ==
    IF id \in DOMAIN store THEN <<store[CHOOSE r \in DOMAIN store : TRUE]>> ELSE <<>>

\* Question.findById: the persisted document, or null.
FindByIdResult(id) == IF id \in DOMAIN store THEN <<store[id]>> ELSE <<>>

\* ------------------------------------------------------- private metadata
\* The characters of the strings a payload carries: record ids as
\* ObjectId.toString() and String give them, channel ids, message
\* timestamps.
Characters(v) ==
    CASE v = "r1" -> <<"r", "1">>
      [] v = "r2" -> <<"r", "2">>
      [] v = TempId -> <<"t", "e", "m", "p", "-", "1">>
      [] v = "C1" -> <<"C", "1">>
      [] v = "C2" -> <<"C", "2">>
      [] v = "Cq" -> <<"C", "\"", "\\">>
      [] v = "t1" -> <<"1", ".", "1">>
      [] v = "t2" -> <<"1", ".", "2">>

Strings == {"r1", "r2", TempId, "C1", "C2", "Cq", "t1", "t2"}

\* The string with the given characters (undefined for undefined).
FromChars(chars) ==
    IF \E v \in Strings : Characters(v) = chars
    THEN CHOOSE v \in Strings : Characters(v) = chars
    ELSE Undefined

Quote == "\""
Backslash == "\\"

\* JSON.stringify of the characters of a string: quotes and backslashes are
\* escaped.
RECURSIVE JsonEscape(_)
JsonEscape(s) ==
    IF s = <<>> THEN <<>>
    ELSE (IF Head(s) \in {Quote, Backslash} THEN <<Backslash, Head(s)>> ELSE <<Head(s)>>)
         \o JsonEscape(Tail(s))

JsonString(s) == <<Quote>> \o JsonEscape(s) \o <<Quote>>

\* JSON.stringify of an object whose members are strings, given as a
\* sequence of <<key, value>>.
RECURSIVE JsonMembers(_)
JsonMembers(members) ==
    IF members = <<>> THEN <<>>
    ELSE JsonString(members[1][1]) \o <<":">> \o JsonString(members[1][2])
         \o (IF Len(members) > 1 THEN <<",">> ELSE <<>>)
         \o JsonMembers(Tail(members))

JsonStringify(members) == <<"{">> \o JsonMembers(members) \o <<"}">>

\* JSON.parse: the result of a text that is no JSON (a SyntaxError is thrown).
SyntaxError == [ok |-> FALSE, value |-> <<>>, next |-> 0]

\* JSON.parse reading a string from the character after its opening quote.
RECURSIVE ReadString(_, _, _)
ReadString(text, i, acc) ==
    IF i > Len(text) THEN SyntaxError
    ELSE IF text[i] = Quote THEN [ok |-> TRUE, value |-> acc, next |-> i + 1]
    ELSE IF text[i] = Backslash
         THEN (IF i + 1 <= Len(text) /\ text[i + 1] \in {Quote, Backslash}
               THEN ReadString(text, i + 2, Append(acc, text[i + 1]))
               ELSE SyntaxError)
    ELSE ReadString(text, i + 1, Append(acc, text[i]))

\* JSON.parse reading the members of an object from the opening quote of a
\* key to the closing brace, which ends the text.
RECURSIVE ReadMembers(_, _, _)
ReadMembers(text, i, acc) ==
    IF i > Len(text) \/ text[i] # Quote THEN SyntaxError
    ELSE LET key == ReadString(text, i + 1, <<>>) IN
         IF ~key.ok \/ key.next + 1 > Len(text) \/ text[key.next] # ":"
            \/ text[key.next + 1] # Quote
         THEN SyntaxError
         ELSE LET val == ReadString(text, key.next + 2, <<>>)
                  read == Append(acc, <<key.value, val.value>>)
              IN
              IF ~val.ok \/ val.next > Len(text) THEN SyntaxError
              ELSE IF text[val.next] = "," THEN ReadMembers(text, val.next + 1, read)
              ELSE IF text[val.next] = "}" /\ val.next = Len(text)
                   THEN [ok |-> TRUE, value |-> read, next |-> val.next + 1]
              ELSE SyntaxError

\* JSON.parse of the text of an object whose members are strings.
JsonParse(text) ==
    IF Len(text) < 2 \/ text[1] # "{" THEN SyntaxError
    ELSE IF text = <<"{", "}">> THEN [ok |-> TRUE, value |-> <<>>, next |-> 3]
    ELSE ReadMembers(text, 2, <<>>)

\* object[key] of a parsed object: the value of the last member with that
\* key, as a string; undefined when there is none.
Member(object, key) ==
    LET at == {i \in 1..Len(object) : object[i][1] = key} IN
    IF at = {} THEN Undefined
    ELSE FromChars(object[CHOOSE i \in at : \A j \in at : j <= i][2])

\* Variant: the record id is written under the key record_id.
PrivateMetadataRecordId(recordId, channelId, messageTs) ==
    JsonStringify(<<
        <<<<"c", "h", "a", "n", "n", "e", "l", "_", "i", "d">>, Characters(channelId)>>,
        <<<<"m", "e", "s", "s", "a", "g", "e", "_", "t", "s">>, Characters(messageTs)>>,
        <<<<"r", "e", "c", "o", "r", "d", "_", "i", "d">>, Characters(recordId)>> >>)

\* openEditModal: JSON.stringify({channel_id, message_ts, data_key:
\* recordId.toString()})
PrivateMetadata(recordId, channelId, messageTs) ==
    JsonStringify(<<
        <<<<"c", "h", "a", "n", "n", "e", "l", "_", "i", "d">>, Characters(channelId)>>,
        <<<<"m", "e", "s", "s", "a", "g", "e", "_", "t", "s">>, Characters(messageTs)>>,
        <<<<"d", "a", "t", "a", "_", "k", "e", "y">>, Characters(recordId)>> >>)

\* handleViewSubmission: JSON.parse(payload.view.private_metadata) and the
\* three members it reads.
Metadata(private_metadata) ==
    LET parsed == JsonParse(private_metadata) IN
    [ok |-> parsed.ok,
     data_key |-> Member(parsed.value, <<"d", "a", "t", "a", "_", "k", "e", "y">>),
     channel_id |-> Member(parsed.value,
                           <<"c", "h", "a", "n", "n", "e", "l", "_", "i", "d">>),
     message_ts |-> Member(parsed.value,
                           <<"m", "e", "s", "s", "a", "g", "e", "_", "t", "s">>)]

\* ------------------------------------------------------------- handlers
Idle ==
    [kind |-> "none", pc |-> "idle",
     recordId |-> Null, user |-> Null, channel |-> Null, ts |-> Null, text |-> Null,
     private_metadata |-> <<>>, responses |-> <<>>,
     found |-> FALSE, doc |-> NoDoc, modified |-> {},
     absent |-> FALSE, wasApproved |-> FALSE, before |-> <<>>, persisted |-> <<>>,
     calls |-> <<>>, updated |-> <<>>, sent |-> <<>>, row |-> <<>>, opened |-> <<>>,
     log |-> <<>>, outcome |-> ""]

\* Telegram messages: msg.chat.id, msg.from.id, msg.from.first_name, and
\* msg.text or msg.photo or neither.  Texts are sequences of characters; a
\* message without text has the empty one (absent and "" are both falsy).
TelegramMessage(kind, text) ==
    [kind |-> kind, chatId |-> "c1", userId |-> "s1", firstName |-> "Ann", text |-> text]

\* No Telegram message is being processed.
NoFlow ==
    [msg |-> TelegramMessage("none", <<>>), pc |-> "idle",
     question |-> <<>>, fileUrl |-> <<>>, filePath |-> <<>>, tempFile |-> FALSE,
     retries |-> 0, requests |-> <<>>, waits |-> <<>>,
     answer |-> Null, source |-> Null,
     id |-> Null, persisted |-> FALSE, posted |-> <<>>,
     replies |-> <<>>, log |-> <<>>, failed |-> <<>>]

Init ==
    /\ store = [id \in {} |-> NoDoc]
    /\ issued = {}
    /\ cards = [key \in {} |-> NoCard]
    /\ views = {}
    /\ outbox = <<>>
    /\ sheet = <<>>
    /\ sheetsInitialized = FALSE
    /\ edited = {}
    /\ hs = [h \in Handlers |-> Idle]
    /\ callbacks = 0
    /\ flow = NoFlow

\* ------------------------------------------------------------ text flow
\* new Question(...) generates the _id on the client, before save.
NewObjectId == CHOOSE id \in RecIds \ issued : TRUE

\* The ts Slack gives the next message posted to the review channel.
NewTs == CHOOSE t \in Ts : <<SlackChannelId, t>> \notin DOMAIN cards

Extend(f, key, val) == [k \in DOMAIN f \cup {key} |-> IF k = key THEN val ELSE f[k]]

\* processTextMessage, steps 2 and 3: the record is saved with
\* isApproved=false (or, when the save fails, replaced by a temporary id) and
\* the review card is posted to the configured channel (a failure is logged
\* and the flow continues).
ProcessTextMessage(saveOk, postOk) ==
    /\ Cardinality(issued) < MaxQuestions
    /\ RecIds \ issued # {}
    /\ \E t \in Ts : <<SlackChannelId, t>> \notin DOMAIN cards
    /\ \A h \in Handlers : hs[h].pc # "done"
    /\ LET id == NewObjectId
           msg == Inbound(id)
           questionData == NewQuestion(msg.from, msg.firstName, msg.text, msg.answer)
           cardId == IF saveOk THEN id ELSE TempId
       IN /\ issued' = issued \cup {id}
          /\ store' = IF saveOk THEN Extend(store, id, questionData) ELSE store
          /\ cards' = IF postOk
                      THEN Extend(cards, <<SlackChannelId, NewTs>>,
                                  ReviewCard(msg.text, msg.answer, cardId, msg.firstName, FALSE))
                      ELSE cards
    /\ UNCHANGED <<views, outbox, sheet, sheetsInitialized, edited, hs, callbacks, flow>>

\* ------------------------------------------------------ handleInteraction
\* The lowest free handler takes the next callback.
Free(h) ==
    /\ \A g \in Handlers : hs[g].pc # "done"
    /\ hs[h].pc = "idle"
    /\ h = "h2" => hs["h1"].pc # "idle"

\* res.status(200).send(""): the invocation has answered its request.
Acknowledged == [Idle EXCEPT !.responses = <<200>>]

\* A block_actions payload whose first action is the approve button:
\* action.value, payload.user.id and payload.message.ts are read.
ApproveClick(h, recordId, user, ts) ==
    /\ callbacks < MaxCallbacks
    /\ Free(h)
    /\ hs' = [hs EXCEPT ![h] = [Acknowledged EXCEPT !.kind = "approve", !.pc = "findById",
                                 !.recordId = recordId, !.user = user, !.ts = ts]]
    /\ callbacks' = callbacks + 1
    /\ UNCHANGED <<store, issued, cards, views, outbox, sheet, sheetsInitialized, edited, flow>>

\* A block_actions payload whose first action is the edit button:
\* action.value, payload.channel.id and payload.message.ts are read.
EditClick(h, recordId, channel, ts) ==
    /\ callbacks < MaxCallbacks
    /\ Free(h)
    /\ hs' = [hs EXCEPT ![h] = [Acknowledged EXCEPT !.kind = "edit", !.pc = "findById",
                                 !.recordId = recordId, !.channel = channel, !.ts = ts]]
    /\ callbacks' = callbacks + 1
    /\ UNCHANGED <<store, issued, cards, views, outbox, sheet, sheetsInitialized, edited, flow>>

\* A view_submission payload: payload.view.private_metadata is parsed (a
\* text that is no JSON is caught by the handler and logged) and data_key,
\* channel_id and message_ts are read from it, then the submitted text and
\* payload.user.id.
ViewSubmission(h, private_metadata, user, text) ==
    LET metadata == Metadata(private_metadata)
        payload == [Acknowledged EXCEPT !.kind = "submit", !.user = user, !.text = text,
                                        !.private_metadata = private_metadata]
    IN
    /\ callbacks < MaxCallbacks
    /\ Free(h)
    /\ hs' = [hs EXCEPT ![h] =
            IF metadata.ok
            THEN [payload EXCEPT !.pc = "findById",
                                 !.recordId = metadata.data_key,
                                 !.channel = metadata.channel_id,
                                 !.ts = metadata.message_ts]
            ELSE [payload EXCEPT !.pc = "done", !.outcome = "failed",
                                 !.log = <<"error: Error handling view submission">>]]
    /\ callbacks' = callbacks + 1
    /\ UNCHANGED <<store, issued, cards, views, outbox, sheet, sheetsInitialized, edited, flow>>

\* Variant: a payload of an unknown type leaves no log entry.
UnknownTypeLogNone(type) == <<>>

\* logger.warn of handleInteraction for a payload that is neither
\* block_actions nor view_submission.
UnknownTypeLog(type) == <<"warn: Unknown Slack interaction type">>

\* A payload whose type is neither block_actions nor view_submission (or
\* that has no type): the request is answered, the type is logged and the
\* invocation is over.
UnknownInteraction(h, type) ==
    /\ callbacks < MaxCallbacks
    /\ Free(h)
    /\ type \notin {"block_actions", "view_submission"}
    /\ hs' = [hs EXCEPT ![h] = [Acknowledged EXCEPT !.kind = "unknown", !.pc = "done",
                                                     !.outcome = "ignored",
                                                     !.log = UnknownTypeLog(type)]]
    /\ callbacks' = callbacks + 1
    /\ UNCHANGED <<store, issued, cards, views, outbox, sheet, sheetsInitialized, edited, flow>>

\* A request whose payload field is no JSON: JSON.parse throws before the
\* request is answered, and the catch block of handleInteraction logs it.
InvalidPayload(h) ==
    /\ callbacks < MaxCallbacks
    /\ Free(h)
    /\ hs' = [hs EXCEPT ![h] = [Idle EXCEPT !.kind = "invalid", !.pc = "done",
                                             !.outcome = "failed",
                                             !.log = <<"error: Error handling Slack interaction">>]]
    /\ callbacks' = callbacks + 1
    /\ UNCHANGED <<store, issued, cards, views, outbox, sheet, sheetsInitialized, edited, flow>>

\* ------------------------------------------------- steps of the handlers
\* Handler h is at the await of `step`.  An invocation that has finished
\* returns before any other handler takes its next step.
Running(h, step) ==
    /\ hs[h].pc = step
    /\ \A g \in Handlers : hs[g].pc # "done"

ApprovalKinds == {"approve", "submit"}

\* Variant order: the student is sent the answer before the card is updated.
StepAfterSendFirst(step) ==
    CASE step = "save" -> "sendMessage"
      [] step = "sendMessage" -> "updateMessage"
      [] step = "updateMessage" -> "saveRecord"
      [] step = "saveRecord" -> "return"

\* Variant order: the archive row is appended before the answer is sent.
StepAfterArchiveFirst(step) ==
    CASE step = "save" -> "updateMessage"
      [] step = "updateMessage" -> "saveRecord"
      [] step = "saveRecord" -> "sendMessage"
      [] step = "sendMessage" -> "return"

\* The order of the awaited calls of handleApproval and of
\* handleViewSubmission after the record was found.
StepAfter(step) ==
    CASE step = "save" -> "updateMessage"
      [] step = "updateMessage" -> "sendMessage"
      [] step = "sendMessage" -> "saveRecord"
      [] step = "saveRecord" -> "return"

\* saveRecord initializes the client first when it is not initialized yet.
Enter(step) ==
    IF step = "saveRecord"
    THEN (IF sheetsInitialized THEN "append" ELSE "initialize")
    ELSE step

\* Variant guard: a record that is already approved is dropped as well.
RecordMissingOrApproved(result) ==
    IF result = <<>> THEN TRUE ELSE result[1].isApproved

\* if (!questionRecord): the callback is dropped.
RecordMissing(result) == result = <<>>

\* Variant: a dropped callback leaves no log entry.
NotFoundLogNone(recordId) == <<>>

\* The log entry of a dropped callback.
NotFoundLog(recordId) == <<"error: Question record not found">>

\* The catch block of the handler a call failed in: one error entry, and
\* nothing else (the persisted record is left as it is).
ErrorPrefix(kind) ==
    CASE kind = "approve" -> "error: Error handling approval"
      [] kind = "submit" -> "error: Error handling view submission"
      [] kind = "edit" -> "error: Error handling edit request"

Caught(hd, op, serviceLog) ==
    [hd EXCEPT !.pc = "done", !.outcome = "failed",
               !.calls = Append(@, [op |-> op, ok |-> FALSE]),
               !.log = @ \o serviceLog \o <<ErrorPrefix(hd.kind)>>]

\* The closing logger.info of a handler.
ClosingLog(kind) ==
    CASE kind = "approve" -> <<"info: Approved answer sent to student">>
      [] kind = "submit" -> <<"info: Edited answer sent to student">>
      [] kind = "edit" -> <<"info: Edit modal opened for question">>

\* The handler goes on after a call that succeeded: to its next call, or to
\* its closing logger.info.
Advance(hd, step, op, serviceLog) ==
    LET next == StepAfter(step)
        went == [hd EXCEPT !.calls = Append(@, [op |-> op, ok |-> TRUE]),
                           !.log = @ \o serviceLog]
    IN IF next = "return"
       THEN [went EXCEPT !.pc = "done", !.outcome = "ok",
                         !.log = @ \o ClosingLog(hd.kind)]
       ELSE [went EXCEPT !.pc = Enter(next)]

\* A String path assigned undefined is unset: the document holds no value
\* for it, and it reads null.
SetString(v) == IF v = Undefined THEN Null ELSE v

\* handleApproval's assignments to the document it was handed.
ApprovalAssign(doc, user) ==
    [doc EXCEPT !.isApproved = TRUE, !.approvedAt = Date,
                !.approvedBy = SetString(user)]

\* Variant: the submission stores the edited answer without approving.
SubmissionAssignDraft(doc, user, text) ==
    [doc EXCEPT !.editedAnswer = text]

\* handleViewSubmission's assignments to the document it loaded.
SubmissionAssign(doc, user, text) ==
    [doc EXCEPT !.editedAnswer = text, !.isApproved = TRUE,
                !.approvedAt = Date, !.approvedBy = SetString(user)]

Paths == {"accountId", "accountName", "question", "answer", "editedAnswer",
          "isApproved", "approvedAt", "approvedBy"}

\* mongoose marks a path modified when the value set differs from the one
\* the document holds.
ModifiedPaths(loaded, doc) == {p \in Paths : doc[p] # loaded[p]}

\* questionRecord.save() of a loaded document: one update that sets the
\* modified paths of the persisted document.
Persist(persisted, doc, modified) ==
    [p \in Paths |-> IF p \in modified THEN doc[p] ELSE persisted[p]]

\* Variant: every string is cast to an ObjectId.
CastErrorNever(id) == FALSE

\* findById casts the id it is given to an ObjectId; a string that is not
\* one (a temporary id) makes the query reject with a CastError.
CastError(id) == id = TempId

\* await Question.findById(recordId), and what the handler does with the
\* result up to its next await.
FindById(h) ==
    LET hd == hs[h]
        result == FindByIdResult(hd.recordId)
        found == result # <<>>
    IN
    /\ Running(h, "findById")
    /\ \/ \* the query is rejected: the outer catch of the handler logs it
          /\ hs' = [hs EXCEPT ![h] =
                [hd EXCEPT !.pc = "done", !.outcome = "failed",
                           !.absent = ~found,
                           !.calls = Append(@, [op |-> "findById", ok |-> FALSE]),
                           !.log = @ \o <<IF hd.kind = "submit"
                                          THEN "error: Error handling view submission"
                                          ELSE "error: Error handling block actions">>]]
       \/ /\ ~CastError(hd.recordId)
          /\ RecordMissing(result)
          /\ hs' = [hs EXCEPT ![h] =
                [hd EXCEPT !.pc = "done", !.outcome = "dropped",
                           !.found = found,
                           !.absent = ~found,
                           !.wasApproved = found /\ result[1].isApproved,
                           !.calls = Append(@, [op |-> "findById", ok |-> TRUE]),
                           !.log = @ \o NotFoundLog(hd.recordId)]]
       \/ /\ ~CastError(hd.recordId)
          /\ ~RecordMissing(result)
          /\ found
          /\ LET loaded == result[1]
                 doc == CASE hd.kind = "approve" -> ApprovalAssign(loaded, hd.user)
                          [] hd.kind = "submit" -> SubmissionAssign(loaded, hd.user, hd.text)
                          [] hd.kind = "edit" -> loaded
             IN hs' = [hs EXCEPT ![h] =
                   [hd EXCEPT !.pc = IF hd.kind = "edit" THEN "openEditModal" ELSE "save",
                              !.found = TRUE,
                              !.wasApproved = loaded.isApproved,
                              !.doc = doc,
                              !.modified = ModifiedPaths(loaded, doc),
                              !.calls = Append(@, [op |-> "findById", ok |-> TRUE])]]
    /\ UNCHANGED <<store, issued, cards, views, outbox, sheet, sheetsInitialized, edited, callbacks, flow>>

\* Variant: the catch block restores the document the save replaced.
StoreAfterFailureRollback(hd) ==
    IF hd.persisted # <<>>
    THEN [store EXCEPT ![hd.recordId] = hd.before[1]]
    ELSE store

\* The catch block of a handler compensates nothing: the collection is left
\* as the calls before the failing one left it.
StoreAfterFailure(hd) == store

\* await questionRecord.save()
Save(h) ==
    LET hd == hs[h]
        before == store[hd.recordId]
        after == Persist(before, hd.doc, hd.modified)
    IN
    /\ Running(h, "save")
    /\ \/ /\ store' = [store EXCEPT ![hd.recordId] = after]
          /\ edited' = IF hd.kind = "submit" THEN edited \cup {hd.recordId} ELSE edited
          /\ hs' = [hs EXCEPT ![h] =
                [Advance(hd, "save", "save", <<>>)
                    EXCEPT !.before = <<before>>, !.persisted = <<after>>]]
       \/ /\ hs' = [hs EXCEPT ![h] = Caught(hd, "save", <<>>)]
          /\ store' = StoreAfterFailure(hd)
          /\ UNCHANGED edited
    /\ UNCHANGED <<issued, cards, views, outbox, sheet, sheetsInitialized, callbacks, flow>>

\* The text the handler shows on the card and sends to the student:
\* questionRecord.answer on approval, the submitted text on submission.
AnswerText(hd) == IF hd.kind = "submit" THEN hd.text ELSE hd.doc.answer

\* The message SlackService.updateMessage updates: chat.update is called
\* with the configured channel and the ts it was given.
UpdateTarget(hd) == [channel |-> SlackChannelId, ts |-> hd.ts]

\* await slackService.updateMessage(ts, text)
UpdateMessage(h) ==
    LET hd == hs[h]
        target == UpdateTarget(hd)
        key == <<target.channel, target.ts>>
    IN
    /\ Running(h, "updateMessage")
    /\ \/ /\ key \in DOMAIN cards
          /\ cards' = [cards EXCEPT ![key] = ApprovedCard(AnswerText(hd))]
          /\ hs' = [hs EXCEPT ![h] =
                [Advance(hd, "updateMessage", "updateMessage", <<>>)
                    EXCEPT !.updated = <<target>>]]
          /\ UNCHANGED store
       \/ /\ hs' = [hs EXCEPT ![h] =
                Caught(hd, "updateMessage", <<"error: Error updating Slack message">>)]
          /\ store' = StoreAfterFailure(hd)
          /\ UNCHANGED cards
    /\ UNCHANGED <<issued, views, outbox, sheet, sheetsInitialized, edited, callbacks, flow>>

\* The message handed to telegramService.sendMessage.
StudentMessage(hd) == [to |-> hd.doc.accountId, text |-> AnswerText(hd)]

\* await telegramService.sendMessage(chatId, text)
SendMessage(h) ==
    LET hd == hs[h] IN
    /\ Running(h, "sendMessage")
    /\ \/ /\ outbox' = Append(outbox, StudentMessage(hd))
          /\ hs' = [hs EXCEPT ![h] =
                [Advance(hd, "sendMessage", "sendMessage",
                         <<"info: Message sent to Telegram user">>)
                    EXCEPT !.sent = <<StudentMessage(hd)>>]]
          /\ UNCHANGED store
       \/ /\ hs' = [hs EXCEPT ![h] =
                Caught(hd, "sendMessage", <<"error: Error sending message to Telegram">>)]
          /\ store' = StoreAfterFailure(hd)
          /\ UNCHANGED outbox
    /\ UNCHANGED <<issued, cards, views, sheet, sheetsInitialized, edited, callbacks, flow>>

\* A JavaScript value that is truthy: not undefined, null or "".
Truthy(v) == v \notin {Undefined, Null, ""}

\* Variant: the handler hands saveRecord the editedAnswer of the document.
ArchiveRecordStored(hd) ==
    [accountName |-> hd.doc.accountName, question |-> hd.doc.question,
     answer |-> hd.doc.answer,
     editedAnswer |-> IF hd.kind = "submit" THEN hd.text ELSE hd.doc.editedAnswer]

\* The object the handler hands to saveRecord: handleApproval passes no
\* editedAnswer, handleViewSubmission passes the submitted text.
ArchiveRecord(hd) ==
    [accountName |-> hd.doc.accountName, question |-> hd.doc.question,
     answer |-> hd.doc.answer,
     editedAnswer |-> IF hd.kind = "submit" THEN hd.text ELSE Undefined]

\* The row saveRecord appends: timestamp, name, question, answer, and
\* record.editedAnswer || record.answer.
ArchiveRow(record) ==
    <<Date, record.accountName, record.question, record.answer,
      IF Truthy(record.editedAnswer) THEN record.editedAnswer ELSE record.answer>>

\* saveRecord: await this.initialize() when the client is not initialized.
Initialize(h) ==
    LET hd == hs[h] IN
    /\ Running(h, "initialize")
    /\ \/ /\ sheetsInitialized' = TRUE
          /\ hs' = [hs EXCEPT ![h] =
                [hd EXCEPT !.pc = "append",
                           !.calls = Append(@, [op |-> "initialize", ok |-> TRUE]),
                           !.log = @ \o <<"info: Google Sheets service initialized">>]]
          /\ UNCHANGED store
       \/ /\ hs' = [hs EXCEPT ![h] =
                Caught(hd, "initialize", <<"error: Error initializing Google Sheets",
                                           "error: Error saving to Google Sheets">>)]
          /\ store' = StoreAfterFailure(hd)
          /\ UNCHANGED sheetsInitialized
    /\ UNCHANGED <<issued, cards, views, outbox, sheet, edited, callbacks, flow>>

\* saveRecord: await this.sheets.spreadsheets.values.append(...)
AppendRow(h) ==
    LET hd == hs[h]
        values == ArchiveRow(ArchiveRecord(hd))
    IN
    /\ Running(h, "append")
    /\ \/ /\ sheet' = Append(sheet, values)
          /\ hs' = [hs EXCEPT ![h] =
                [Advance(hd, "saveRecord", "append",
                         <<"info: Record saved to Google Sheets">>)
                    EXCEPT !.row = <<values>>]]
          /\ UNCHANGED store
       \/ /\ hs' = [hs EXCEPT ![h] =
                Caught(hd, "append", <<"error: Error saving to Google Sheets">>)]
          /\ store' = StoreAfterFailure(hd)
          /\ UNCHANGED sheet
    /\ UNCHANGED <<issued, cards, views, outbox, sheetsInitialized, edited, callbacks, flow>>

\* Variant: the input of the form is pre-filled with the question.
EditViewQuestion(recordId, channelId, messageTs, question, answer) ==
    [question |-> question, initial_value |-> question,
     private_metadata |-> PrivateMetadata(recordId, channelId, messageTs)]

\* The view openEditModal opens: the input pre-filled with the answer and
\* the private metadata of the card it was opened from.
EditView(recordId, channelId, messageTs, question, answer) ==
    [question |-> question, initial_value |-> answer,
     private_metadata |-> PrivateMetadata(recordId, channelId, messageTs)]

\* handleEditRequest: await slackService.openEditModal(...)
OpenEditModal(h) ==
    LET hd == hs[h]
        view == EditView(hd.recordId, hd.channel, hd.ts, hd.doc.question, hd.doc.answer)
    IN
    /\ Running(h, "openEditModal")
    /\ \/ /\ views' = views \cup {view}
          /\ hs' = [hs EXCEPT ![h] =
                [hd EXCEPT !.pc = "done", !.outcome = "ok",
                           !.calls = Append(@, [op |-> "openEditModal", ok |-> TRUE]),
                           !.opened = <<view>>,
                           !.log = @ \o ClosingLog("edit")]]
          /\ UNCHANGED store
       \/ /\ hs' = [hs EXCEPT ![h] =
                Caught(hd, "openEditModal", <<"error: Error opening edit modal">>)]
          /\ store' = StoreAfterFailure(hd)
          /\ UNCHANGED views
    /\ UNCHANGED <<issued, cards, outbox, sheet, sheetsInitialized, edited, callbacks, flow>>

\* handleInteraction returns: the invocation is over.
Return(h) ==
    /\ hs[h].pc = "done"
    /\ hs' = [hs EXCEPT ![h] = Idle]
    /\ UNCHANGED <<store, issued, cards, views, outbox, sheet, sheetsInitialized, edited, callbacks, flow>>

\* The private metadata of the forms openEditModal can open.
FormMetadata ==
    {PrivateMetadata(recordId, channel, ts) :
        recordId \in RecIds, channel \in Channels, ts \in Ts}

Next ==
    \/ \E saveOk \in BOOLEAN, postOk \in BOOLEAN : ProcessTextMessage(saveOk, postOk)
    \/ \E h \in Handlers, recordId \in RecIds, user \in UserIds, ts \in Ts :
            ApproveClick(h, recordId, user, ts)
    \/ \E h \in Handlers, recordId \in RecIds, channel \in Channels, ts \in Ts :
            EditClick(h, recordId, channel, ts)
    \/ \E h \in Handlers, private_metadata \in FormMetadata,
          user \in UserIds, text \in Texts :
            ViewSubmission(h, private_metadata, user, text)
    \/ \E h \in Handlers : FindById(h)
    \/ \E h \in Handlers : Save(h)
    \/ \E h \in Handlers : UpdateMessage(h)
    \/ \E h \in Handlers : SendMessage(h)
    \/ \E h \in Handlers : Initialize(h)
    \/ \E h \in Handlers : AppendRow(h)
    \/ \E h \in Handlers : OpenEditModal(h)
    \/ \E h \in Handlers : Return(h)

Spec == Init /\ [][Next]_vars

\* ------------------------------------------------------ two records
\* Two questions were received, saved and posted; the first callback is for
\* the card of one and the second for the card of the other, and their
\* handlers interleave.
PairTargets == <<"r1", "r2">>
CardTs(recordId) == IF recordId = "r1" THEN "t1" ELSE "t2"
Created(recordId) ==
    NewQuestion(Inbound(recordId).from, Inbound(recordId).firstName,
                Inbound(recordId).text, Inbound(recordId).answer)

InitPair ==
    /\ store = [id \in RecIds |-> Created(id)]
    /\ issued = RecIds
    /\ cards = [key \in {<<SlackChannelId, CardTs(id)>> : id \in RecIds} |->
                    LET id == CHOOSE r \in RecIds : CardTs(r) = key[2] IN
                    ReviewCard(Inbound(id).text, Inbound(id).answer, id,
                               Inbound(id).firstName, FALSE)]
    /\ views = {}
    /\ outbox = <<>>
    /\ sheet = <<>>
    /\ sheetsInitialized = FALSE
    /\ edited = {}
    /\ hs = [h \in Handlers |-> Idle]
    /\ callbacks = 0
    /\ flow = NoFlow

NextPair ==
    \/ \E h \in Handlers, user \in UserIds :
            /\ callbacks < Len(PairTargets)
            /\ LET recordId == PairTargets[callbacks + 1] IN
               ApproveClick(h, recordId, user, CardTs(recordId))
    \/ \E h \in Handlers :
            /\ callbacks < Len(PairTargets)
            /\ LET recordId == PairTargets[callbacks + 1] IN
               EditClick(h, recordId, SlackChannelId, CardTs(recordId))
    \/ \E h \in Handlers, user \in UserIds, text \in Texts :
            /\ callbacks < Len(PairTargets)
            /\ LET recordId == PairTargets[callbacks + 1] IN
               ViewSubmission(h, PrivateMetadata(recordId, SlackChannelId, CardTs(recordId)),
                              user, text)
    \/ \E h \in Handlers : FindById(h)
    \/ \E h \in Handlers : Save(h)
    \/ \E h \in Handlers : UpdateMessage(h)
    \/ \E h \in Handlers : SendMessage(h)
    \/ \E h \in Handlers : Initialize(h)
    \/ \E h \in Handlers : AppendRow(h)
    \/ \E h \in Handlers : OpenEditModal(h)
    \/ \E h \in Handlers : Return(h)

SpecPair == InitPair /\ [][NextPair]_vars

\* --------------------------------------------------- callback payloads
\* Every shape of request /slack/interactions receives: clicks and
\* submissions that carry the id of a record, of no record, or the temporary
\* id of a card; submissions of the forms that were opened, or with a
\* private_metadata that is no JSON; payloads of other types; payload fields
\* that are no JSON.
CallbackIds == RecIds \cup {TempId}
CallbackChannels == Channels \cup {"Cq"}
OtherTypes == {"message_action", Undefined}
NotJson == <<"{", "d", "a", "t", "a", "_", "k", "e", "y">>

SubmittedMetadata ==
    {view.private_metadata : view \in views}
        \cup {PrivateMetadata(TempId, SlackChannelId, ts) : ts \in Ts}
        \cup {NotJson}

NextCallback ==
    \/ \E saveOk \in BOOLEAN, postOk \in BOOLEAN : ProcessTextMessage(saveOk, postOk)
    \/ \E h \in Handlers, recordId \in CallbackIds, user \in Reviewers, ts \in Ts :
            ApproveClick(h, recordId, user, ts)
    \/ \E h \in Handlers, recordId \in CallbackIds, channel \in CallbackChannels, ts \in Ts :
            EditClick(h, recordId, channel, ts)
    \/ \E h \in Handlers, private_metadata \in SubmittedMetadata,
          user \in Reviewers, text \in Texts :
            ViewSubmission(h, private_metadata, user, text)
    \/ \E h \in Handlers, type \in OtherTypes : UnknownInteraction(h, type)
    \/ \E h \in Handlers : InvalidPayload(h)
    \/ \E h \in Handlers : FindById(h)
    \/ \E h \in Handlers : Save(h)
    \/ \E h \in Handlers : UpdateMessage(h)
    \/ \E h \in Handlers : SendMessage(h)
    \/ \E h \in Handlers : Initialize(h)
    \/ \E h \in Handlers : AppendRow(h)
    \/ \E h \in Handlers : OpenEditModal(h)
    \/ \E h \in Handlers : Return(h)

SpecCallback == Init /\ [][NextCallback]_vars

\* ============================================================ intake
\* processMessage and what it calls: processTextMessage, processPhotoMessage,
\* DeepseekService.generateAnswer, GeminiService.extractTextFromImage.
\* Strings the code inspects are sequences of characters.

\* this.maxRetries and this.retryDelay (ms) of DeepseekService.
MaxRetries == 2
RetryDelay == 1000

Uppers == <<"A", "B", "C", "D", "E", "F", "G", "H", "I", "J", "K", "L", "M", "N",
            "O", "P", "Q", "R", "S", "T", "U", "V", "W", "X", "Y", "Z">>
Lowers == <<"a", "b", "c", "d", "e", "f", "g", "h", "i", "j", "k", "l", "m", "n",
            "o", "p", "q", "r", "s", "t", "u", "v", "w", "x", "y", "z">>

\* String.prototype.toLowerCase
ToLowerCase(s) ==
    [i \in 1..Len(s) |->
        IF \E k \in 1..Len(Uppers) : Uppers[k] = s[i]
        THEN Lowers[CHOOSE k \in 1..Len(Uppers) : Uppers[k] = s[i]]
        ELSE s[i]]

\* String.prototype.includes
Includes(s, word) ==
    \E i \in 0..(Len(s) - Len(word)) : SubSeq(s, i + 1, i + Len(word)) = word

MathKeywords == {<<"m", "a", "t", "h">>,
                 <<"f", "o", "r", "m", "u", "l", "a">>,
                 <<"e", "q", "u", "a", "t", "i", "o", "n">>,
                 <<"c", "a", "l", "c", "u", "l", "a", "t", "e">>}
PhysicsKeywords == {<<"p", "h", "y", "s", "i", "c", "s">>,
                    <<"f", "o", "r", "c", "e">>,
                    <<"e", "n", "e", "r", "g", "y">>,
                    <<"m", "o", "t", "i", "o", "n">>}
ChemistryKeywords == {<<"c", "h", "e", "m", "i", "s", "t", "r", "y">>,
                      <<"r", "e", "a", "c", "t", "i", "o", "n">>,
                      <<"m", "o", "l", "e", "c", "u", "l", "e">>}

MathFallback == "The formula you're asking about appears to involve mathematical concepts. A teacher will review your question and provide a detailed answer shortly."
PhysicsFallback == "Your physics question requires careful explanation. A teacher will review your question and provide a detailed answer shortly."
ChemistryFallback == "Your chemistry question involves specific concepts. A teacher will review your question and provide a detailed answer shortly."
GenericFallback == "I'll help with your question. A teacher will review it and provide a detailed answer shortly."

\* Variant: the keywords are looked for in the question as it was typed.
GetFallbackResponseCaseSensitive(question) ==
    LET q == question IN
    IF \E w \in MathKeywords : Includes(q, w) THEN MathFallback
    ELSE IF \E w \in PhysicsKeywords : Includes(q, w) THEN PhysicsFallback
    ELSE IF \E w \in ChemistryKeywords : Includes(q, w) THEN ChemistryFallback
    ELSE GenericFallback

\* DeepseekService._getFallbackResponse
GetFallbackResponse(question) ==
    LET q == ToLowerCase(question) IN
    IF \E w \in MathKeywords : Includes(q, w) THEN MathFallback
    ELSE IF \E w \in PhysicsKeywords : Includes(q, w) THEN PhysicsFallback
    ELSE IF \E w \in ChemistryKeywords : Includes(q, w) THEN ChemistryFallback
    ELSE GenericFallback

\* What the AI service does with one request: the transport fails, the
\* request times out, the body has no choices, the first choice has no
\* message, the message has no content, the content is "", or the content
\* is a text.
Responses == {"error", "timeout", "nochoices", "nomessage", "nocontent", "empty", "text"}

AiText == "ai answer"

\* The outcome of a call: a value it resolves to, or an error it throws.
Resolved(v) == [raised |-> FALSE, value |-> v]
Thrown == [raised |-> TRUE, value |-> Undefined]

\* DeepseekService._makeRequest: answer.length is read before the return.
MakeRequest(response) ==
    CASE response \in {"error", "timeout"} -> Thrown
      [] response = "nochoices" -> Thrown
      [] response \in {"nomessage", "nocontent"} -> Thrown
      [] response = "empty" -> Resolved("")
      [] response = "text" -> Resolved(AiText)

\* DeepseekService._makeSimplifiedRequest: the content is returned as it is.
MakeSimplifiedRequest(response) ==
    CASE response \in {"error", "timeout"} -> Thrown
      [] response = "nochoices" -> Thrown
      [] response = "nomessage" -> Thrown
      [] response = "nocontent" -> Resolved(Undefined)
      [] response = "empty" -> Resolved("")
      [] response = "text" -> Resolved(AiText)

\* Texts students send.
TextQuestions ==
    {<<"W", "h", "a", "t", " ", "i", "s", " ", "2", "+", "2", "?">>,
     <<"S", "o", "l", "v", "e", " ", "t", "h", "e", " ", "E", "Q", "U", "A",
       "T", "I", "O", "N">>,
     <<"f", "o", "r", "c", "e", " ", "e", "q", "u", "a", "t", "i", "o", "n">>,
     <<"E", "n", "e", "r", "g", "y">>,
     <<"a", " ", "R", "e", "a", "c", "t", "i", "o", "n">>}

\* The text the mock extractTextFromImage returns for a .jpg file, and the
\* text it returns when its debug copy fails.
JpgText ==
    <<"F", "i", "n", "d", " ", "t", "h", "e", " ", "d", "e", "r", "i", "v",
      "a", "t", "i", "v", "e", " ", "o", "f", " ", "f", "(", "x", ")", " ",
      "=", " ", "3", "x", "sup2", " ", "+", " ", "2", "x", " ", "-", " ",
      "5", " ", "w", "i", "t", "h", " ", "r", "e", "s", "p", "e", "c", "t",
      " ", "t", "o", " ", "x", ".">>
PngText ==
    <<"I", "f", " ", "a", " ", "c", "i", "r", "c", "l", "e", " ",
      "h", "a", "s", " ", "a", " ", "r", "a", "d", "i", "u", "s",
      " ", "o", "f", " ", "5", " ", "c", "m", ",", " ", "c", "a",
      "l", "c", "u", "l", "a", "t", "e", " ", "i", "t", "s", " ",
      "a", "r", "e", "a", " ", "a", "n", "d", " ", "c", "i", "r",
      "c", "u", "m", "f", "e", "r", "e", "n", "c", "e", ".">>
EquationText ==
    <<"S", "o", "l", "v", "e", " ", "t", "h", "e", " ", "f", "o",
      "l", "l", "o", "w", "i", "n", "g", " ", "e", "q", "u", "a",
      "t", "i", "o", "n", ":", " ", "2", "x", " ", "+", " ", "5",
      " ", "=", " ", "1", "3">>
MockFailureText ==
    <<"T", "h", "i", "s", " ", "a", "p", "p", "e", "a", "r", "s", " ", "t",
      "o", " ", "b", "e", " ", "a", "n", " ", "i", "m", "a", "g", "e", " ",
      "w", "i", "t", "h", " ", "a", " ", "q", "u", "e", "s", "t", "i", "o",
      "n", ".", " ", "A", " ", "t", "e", "a", "c", "h", "e", "r", " ", "w",
      "i", "l", "l", " ", "r", "e", "v", "i", "e", "w", " ", "i", "t", " ",
      "s", "h", "o", "r", "t", "l", "y", ".">>

AckText == "I've received your question and am working on it. A teacher will review the answer shortly."
AckImage == "I've received your image and am processing it. A teacher will review the answer shortly."
SorryQuestion == "Sorry, there was an error processing your question. Please try again later."
SorryImage == "Sorry, there was an error processing your image. Please try again later."
SorryMessage == "Sorry, there was an error processing your message. Please try again later."
SorryUnsupported == "Sorry, I can only process text or images. Please try again."

\* msg.chat.id: the id of the sender in a private chat, the id of the group
\* in a group chat.
ChatIds == {"s1", "c1"}

Messages ==
    {[msg EXCEPT !.chatId = chatId] :
        msg \in {TelegramMessage("text", q) : q \in TextQuestions}
                   \cup {TelegramMessage("photo", <<>>), TelegramMessage("other", <<>>)},
        chatId \in ChatIds}

\* processMessage: the branch taken for msg, up to the first await.
ProcessMessage(msg) ==
    [NoFlow EXCEPT !.msg = msg,
                   !.pc = IF msg.kind = "other" THEN "unsupported" ELSE "sendChatAction",
                   !.question = IF msg.kind = "text" THEN msg.text ELSE <<>>,
                   !.log = <<"info: Received message">>]

InitIntake ==
    /\ store = [id \in {} |-> NoDoc]
    /\ issued = {}
    /\ cards = [key \in {} |-> NoCard]
    /\ views = {}
    /\ outbox = <<>>
    /\ sheet = <<>>
    /\ sheetsInitialized = FALSE
    /\ edited = {}
    /\ hs = [h \in Handlers |-> Idle]
    /\ callbacks = 0
    /\ flow \in {ProcessMessage(msg) : msg \in Messages}

workflow == <<views, outbox, sheet, sheetsInitialized, edited, hs, callbacks>>

IsPhoto == flow.msg.kind = "photo"

\* The catch block of processTextMessage / processPhotoMessage: the error is
\* logged and the apology is sent next.
FlowCatch(f, step) ==
    [f EXCEPT !.pc = "apology", !.failed = Append(@, step),
              !.log = Append(@, IF f.msg.kind = "photo"
                                THEN "error: Error processing photo message"
                                ELSE "error: Error processing text message")]

\* await bot.sendChatAction(chatId, "typing")
SendChatAction(ok) ==
    /\ flow.pc = "sendChatAction"
    /\ flow' = IF ok
               THEN [flow EXCEPT !.pc = IF IsPhoto THEN "getPhotoUrl" ELSE "request"]
               ELSE FlowCatch(flow, "sendChatAction")
    /\ UNCHANGED <<store, issued, cards, workflow>>

\* fileInfo.file_path of the files Telegram holds for a photo or for an
\* image sent in another format.
FilePaths ==
    {<<"p", "h", "o", "t", "o", "s", "/", "f", ".", "j", "p", "g">>,
     <<"p", "h", "o", "t", "o", "s", "/", "f", ".", "p", "n", "g">>,
     <<"d", "o", "c", "u", "m", "e", "n", "t", "s", "/", "f">>}

\* The URL getPhotoUrl builds from the file path.
FileUrl(file_path) ==
    <<"h", "t", "t", "p", "s", ":", "/", "/", "a", "p", "i", ".", "t", "e", "l", "e", "g", "r", "a", "m", ".", "o", "r", "g", "/", "f", "i", "l", "e", "/", "b", "o", "t", "T", "/">>
        \o file_path

\* getPhotoUrl: await bot.getFile(fileId); a failure is logged twice and
\* rethrown to the catch of processPhotoMessage.
GetPhotoUrl(ok, file_path) ==
    /\ flow.pc = "getPhotoUrl"
    /\ flow' = IF ok
               THEN [flow EXCEPT !.pc = "downloadPhoto", !.fileUrl = FileUrl(file_path)]
               ELSE FlowCatch([flow EXCEPT !.log = @ \o
                                  <<"error: Error getting file from Telegram",
                                    "error: Error downloading photo">>],
                              "getPhotoUrl")
    /\ UNCHANGED <<store, issued, cards, workflow>>

\* Variant: the temporary file is written without an extension.
TempFilePathNoExtension == <<"t", "e", "m", "p", "/", "1">>

\* The path of the file downloadPhoto writes: temp/<Date.now()>.jpg
TempFilePath == <<"t", "e", "m", "p", "/", "1", ".", "j", "p", "g">>

\* downloadPhoto: the GET, then the stream piped to temp/<now>.jpg.  When it
\* fails the file may or may not have been created.
DownloadPhoto(ok, written) ==
    /\ flow.pc = "downloadPhoto"
    /\ ok => written
    /\ flow' = IF ok
               THEN [flow EXCEPT !.pc = "extractTextFromImage",
                                 !.filePath = TempFilePath, !.tempFile = TRUE,
                                 !.log = Append(@, "info: Downloaded photo")]
               ELSE FlowCatch([flow EXCEPT !.tempFile = written,
                                           !.log = Append(@, "error: Error downloading photo")],
                              "downloadPhoto")
    /\ UNCHANGED <<store, issued, cards, workflow>>

\* path.basename: the part of a path after its last separator.
Basename(p) ==
    LET seps == {i \in 1..Len(p) : p[i] = "/"} IN
    IF seps = {} THEN p
    ELSE SubSeq(p, (CHOOSE i \in seps : \A j \in seps : j <= i) + 1, Len(p))

\* path.extname: from the last dot of the basename to its end; empty when
\* there is no dot or the only dot is the first character.
Extname(p) ==
    LET base == Basename(p)
        dots == {i \in 1..Len(base) : base[i] = "."}
        last == CHOOSE i \in dots : \A j \in dots : j <= i
    IN IF dots = {} THEN <<>>
       ELSE IF last = 1 THEN <<>>
       ELSE SubSeq(base, last, Len(base))

\* Variant: the extension is compared as it is written.
MockTextCaseSensitive(imagePath) ==
    LET ext == Extname(imagePath) IN
    IF ext \in {<<".", "j", "p", "g">>, <<".", "j", "p", "e", "g">>} THEN JpgText
    ELSE IF ext = <<".", "p", "n", "g">> THEN PngText
    ELSE EquationText

\* The mock text extractTextFromImage generates from the lowercased
\* extension of the path.
MockText(imagePath) ==
    LET ext == ToLowerCase(Extname(imagePath)) IN
    IF ext \in {<<".", "j", "p", "g">>, <<".", "j", "p", "e", "g">>} THEN JpgText
    ELSE IF ext = <<".", "p", "n", "g">> THEN PngText
    ELSE EquationText

\* GeminiService.extractTextFromImage: the mock text for the extension of
\* the path; when anything in its try block throws (the debug copy fails),
\* the text of its catch block is returned.
ExtractTextFromImage(copied) ==
    /\ flow.pc = "extractTextFromImage"
    /\ flow' = [flow EXCEPT !.pc = "request",
                            !.question = IF copied THEN MockText(flow.filePath)
                                         ELSE MockFailureText,
                            !.log = @ \o <<IF copied
                                           THEN "info: Generated mock text from image"
                                           ELSE "error: Error in mock image processing",
                                           "info: Extracted text from image">>]
    /\ UNCHANGED <<store, issued, cards, workflow>>

\* generateAnswer resolves: the caller stores the answer and goes on to save
\* the record.
Answered(f, answer, source) ==
    [f EXCEPT !.pc = "save", !.answer = answer, !.source = source,
              !.log = Append(@, "info: Generated answer")]

\* Variant: the wait before a retry is always the base delay.
RetryWaitConstant(retries) == RetryDelay

\* The delay of the timeout awaited before a retry.
RetryWait(retries) == RetryDelay * retries

\* Variant: one retry fewer.
RetryAllowedFewer(retries) == retries < MaxRetries

\* while (retries <= this.maxRetries)
RetryAllowed(retries) == retries <= MaxRetries

\* generateAnswer: await new Promise(resolve => setTimeout(resolve, ...))
RetryTimeout ==
    /\ flow.pc = "timeout"
    /\ flow' = [flow EXCEPT !.pc = "request",
                            !.waits = Append(@, [before |-> Len(flow.requests) + 1,
                                                 ms |-> RetryWait(flow.retries)])]
    /\ UNCHANGED <<store, issued, cards, workflow>>

\* generateAnswer: return await this._makeRequest(question), and the catch of
\* the loop when it throws.
Request(response) ==
    LET result == MakeRequest(response)
        asked == [flow EXCEPT !.requests = Append(@, [request |-> "full",
                                                      ok |-> ~result.raised])]
        retries == flow.retries + 1
    IN
    /\ flow.pc = "request"
    /\ flow' = IF ~result.raised
               THEN Answered(asked, result.value, "full")
               ELSE [asked EXCEPT !.retries = retries,
                                  !.pc = IF RetryAllowed(retries) THEN "timeout"
                                         ELSE "simplifiedRequest",
                                  !.log = Append(@, "error: DeepSeek API error")]
    /\ UNCHANGED <<store, issued, cards, workflow>>

\* generateAnswer: return await this._makeSimplifiedRequest(question), and
\* the fallback response when it throws.
SimplifiedRequest(response) ==
    LET result == MakeSimplifiedRequest(response)
        asked == [flow EXCEPT !.requests = Append(@, [request |-> "simplified",
                                                      ok |-> ~result.raised])]
    IN
    /\ flow.pc = "simplifiedRequest"
    /\ flow' = IF ~result.raised
               THEN Answered(asked, result.value, "simplified")
               ELSE Answered([asked EXCEPT !.log = Append(@,
                                  "error: Simplified request also failed")],
                             GetFallbackResponse(flow.question), "fallback")
    /\ UNCHANGED <<store, issued, cards, workflow>>

\* The required validator of a String path: a string that is not empty.
RequiredString(v) == v \notin {Undefined, Null, ""}

\* Variant: a failure to save the record reaches the catch block of the flow.
DbErrorThrown(f) ==
    FlowCatch([f EXCEPT !.log = Append(@, "error: Error saving to database")], "save")

\* catch (dbError): the failure is logged and questionData becomes an object
\* with a temporary id; the flow continues with the review card.
DbErrorCaught(f) ==
    [f EXCEPT !.pc = "sendQuestionForApproval",
              !.id = TempId,
              !.log = Append(@, "error: Error saving to database")]

\* new Question({...}); await questionData.save(): the document is validated
\* and inserted; when that fails questionData becomes an object with a
\* temporary id.
QuestionDataSave(inserted) ==
    LET id == NewObjectId
        msg == flow.msg
        questionData == NewQuestion(msg.userId, msg.firstName, flow.question, flow.answer)
        valid == Len(flow.question) > 0 /\ RequiredString(flow.answer)
    IN
    /\ flow.pc = "save"
    /\ issued' = issued \cup {id}
    /\ IF inserted /\ valid
       THEN /\ store' = Extend(store, id, questionData)
            /\ flow' = [flow EXCEPT !.pc = "sendQuestionForApproval",
                                    !.id = id, !.persisted = TRUE,
                                    !.log = Append(@, "info: Saved question to database")]
       ELSE /\ store' = store
            /\ flow' = DbErrorCaught(flow)
    /\ UNCHANGED <<cards, workflow>>

\* Variant: a failure to post the card reaches the catch block of the flow.
SlackErrorThrown(f) ==
    FlowCatch([f EXCEPT !.log = Append(@, "error: Error sending message to Slack")],
              "sendQuestionForApproval")

\* catch (slackError): the failure is logged and the flow continues.
SlackErrorCaught(f) ==
    [f EXCEPT !.pc = "acknowledge", !.failed = Append(@, "sendQuestionForApproval"),
              !.log = @ \o <<"error: Error sending message to Slack",
                             "error: Error sending to Slack">>]

\* await slackService.sendQuestionForApproval(...): a failure is logged by
\* the service and by the caller, and the flow continues.
SendQuestionForApproval(ok) ==
    LET key == <<SlackChannelId, NewTs>>
        card == ReviewCard(flow.question, flow.answer, flow.id, flow.msg.firstName, IsPhoto)
    IN
    /\ flow.pc = "sendQuestionForApproval"
    /\ IF ok
       THEN /\ cards' = Extend(cards, key, card)
            /\ flow' = [flow EXCEPT !.pc = "acknowledge", !.posted = <<key>>,
                                    !.log = Append(@, "info: Sent question to Slack for approval")]
       ELSE /\ cards' = cards
            /\ flow' = SlackErrorCaught(flow)
    /\ UNCHANGED <<store, issued, workflow>>

\* Variant: a failure to unlink the temporary file reaches the catch block
\* of the flow.
CleanupErrorThrown(f) ==
    FlowCatch([f EXCEPT !.log = Append(@, "error: Error cleaning up file")], "cleanup")

\* catch (cleanupError): the failure to unlink the temporary file is logged.
CleanupErrorCaught(f) ==
    [f EXCEPT !.log = Append(@, "error: Error cleaning up file")]

\* await bot.sendMessage(chatId, acknowledgment); in the photo flow the
\* temporary file is unlinked afterwards.
SendAcknowledgment(ok, unlinked) ==
    LET reply == [to |-> flow.msg.chatId, text |-> IF IsPhoto THEN AckImage ELSE AckText]
        sent == [flow EXCEPT !.pc = "done", !.replies = Append(@, reply),
                             !.log = Append(@, "info: Sent acknowledgment to user")]
    IN
    /\ flow.pc = "acknowledge"
    /\ ~IsPhoto => unlinked
    /\ flow' = IF ~ok THEN FlowCatch(flow, "acknowledge")
               ELSE IF ~IsPhoto THEN sent
               ELSE IF unlinked
               THEN [sent EXCEPT !.tempFile = FALSE,
                                 !.log = Append(@, "info: Cleaned up temporary file")]
               ELSE CleanupErrorCaught(sent)
    /\ UNCHANGED <<store, issued, cards, workflow>>

\* The catch block's await bot.sendMessage(chatId, apology); when it fails
\* the error reaches the catch block of processMessage.
SendApology(ok) ==
    LET reply == [to |-> flow.msg.chatId,
                  text |-> IF IsPhoto THEN SorryImage ELSE SorryQuestion]
    IN
    /\ flow.pc = "apology"
    /\ flow' = IF ok
               THEN [flow EXCEPT !.pc = "done", !.replies = Append(@, reply)]
               ELSE [flow EXCEPT !.pc = "errorMessage", !.failed = Append(@, "apology"),
                                 !.log = Append(@, "error: Error processing Telegram message")]
    /\ UNCHANGED <<store, issued, cards, workflow>>

\* processMessage's catch block: await bot.sendMessage(msg.chat.id, ...)
SendErrorMessage(ok) ==
    LET reply == [to |-> flow.msg.chatId, text |-> SorryMessage] IN
    /\ flow.pc = "errorMessage"
    /\ flow' = IF ok
               THEN [flow EXCEPT !.pc = "done", !.replies = Append(@, reply)]
               ELSE [flow EXCEPT !.pc = "done", !.failed = Append(@, "errorMessage"),
                                 !.log = Append(@, "error: Error sending error message")]
    /\ UNCHANGED <<store, issued, cards, workflow>>

\* processMessage, neither photo nor text: await bot.sendMessage(chatId, ...)
SendUnsupported(ok) ==
    LET reply == [to |-> flow.msg.chatId, text |-> SorryUnsupported] IN
    /\ flow.pc = "unsupported"
    /\ flow' = IF ok
               THEN [flow EXCEPT !.pc = "done", !.replies = Append(@, reply)]
               ELSE [flow EXCEPT !.pc = "errorMessage", !.failed = Append(@, "unsupported"),
                                 !.log = Append(@, "error: Error processing Telegram message")]
    /\ UNCHANGED <<store, issued, cards, workflow>>

NextIntake ==
    \/ \E ok \in BOOLEAN : SendChatAction(ok)
    \/ \E ok \in BOOLEAN, file_path \in FilePaths : GetPhotoUrl(ok, file_path)
    \/ \E ok \in BOOLEAN, written \in BOOLEAN : DownloadPhoto(ok, written)
    \/ \E copied \in BOOLEAN : ExtractTextFromImage(copied)
    \/ RetryTimeout
    \/ \E response \in Responses : Request(response)
    \/ \E response \in Responses : SimplifiedRequest(response)
    \/ \E inserted \in BOOLEAN : QuestionDataSave(inserted)
    \/ \E ok \in BOOLEAN : SendQuestionForApproval(ok)
    \/ \E ok \in BOOLEAN, unlinked \in BOOLEAN : SendAcknowledgment(ok, unlinked)
    \/ \E ok \in BOOLEAN : SendApology(ok)
    \/ \E ok \in BOOLEAN : SendErrorMessage(ok)
    \/ \E ok \in BOOLEAN : SendUnsupported(ok)

SpecIntake == InitIntake /\ [][NextIntake]_vars

\* ---------------------------------------------------- question to answer
\* One Telegram message is processed, and reviewers click the buttons of the
\* card posted for it and submit the forms opened from it, one callback
\* after the other.
NextAnswer ==
    \/ NextIntake
    \/ \E h \in {"h1"}, key \in DOMAIN cards, user \in Reviewers :
            /\ cards[key].kind = "review"
            /\ ApproveClick(h, cards[key].approve_button, user, key[2])
    \/ \E h \in {"h1"}, key \in DOMAIN cards :
            /\ cards[key].kind = "review"
            /\ EditClick(h, cards[key].edited_button, key[1], key[2])
    \/ \E h \in {"h1"}, view \in views, user \in Reviewers, text \in Texts :
            ViewSubmission(h, view.private_metadata, user, text)
    \/ \E h \in Handlers : FindById(h)
    \/ \E h \in Handlers : Save(h)
    \/ \E h \in Handlers : UpdateMessage(h)
    \/ \E h \in Handlers : SendMessage(h)
    \/ \E h \in Handlers : Initialize(h)
    \/ \E h \in Handlers : AppendRow(h)
    \/ \E h \in Handlers : OpenEditModal(h)
    \/ \E h \in Handlers : Return(h)

\* The messages followed to their answer: one text question, a photo and a
\* message of another kind, each in a private chat and in a group chat.
AnswerMessages ==
    {msg \in Messages :
        msg.kind = "text" => msg.text = <<"E", "n", "e", "r", "g", "y">>}

InitAnswer ==
    /\ store = [id \in {} |-> NoDoc]
    /\ issued = {}
    /\ cards = [key \in {} |-> NoCard]
    /\ views = {}
    /\ outbox = <<>>
    /\ sheet = <<>>
    /\ sheetsInitialized = FALSE
    /\ edited = {}
    /\ hs = [h \in Handlers |-> Idle]
    /\ callbacks = 0
    /\ flow \in {ProcessMessage(msg) : msg \in AnswerMessages}

SpecAnswer == InitAnswer /\ [][NextAnswer]_vars

\* ------------------------------------------------ extractTextFromImage
\* extractTextFromImage applied to image paths: a directory, a file name
\* and an extension.
Directories == {<<>>, <<"t", "e", "m", "p", "/">>, <<"u", "p", ".", "l", "o", "a", "d", "/">>}
FileNames == {<<"1">>, <<"p", "h", "o", "t", "o">>, <<".", "x">>}
Extensions == {<<>>, <<".">>, <<".", "j", "p", "g">>, <<".", "J", "P", "G">>, <<".", "j", "p", "e", "g">>, <<".", "J", "p", "e", "g">>, <<".", "p", "n", "g">>, <<".", "P", "N", "G">>, <<".", "g", "i", "f">>, <<".", "j", "p", "g", "x">>, <<".", "p", "n">>}
ImagePaths ==
    {dir \o name \o ext : dir \in Directories, name \in FileNames, ext \in Extensions}

InitExtract ==
    /\ store = [id \in {} |-> NoDoc]
    /\ issued = {}
    /\ cards = [key \in {} |-> NoCard]
    /\ views = {}
    /\ outbox = <<>>
    /\ sheet = <<>>
    /\ sheetsInitialized = FALSE
    /\ edited = {}
    /\ hs = [h \in Handlers |-> Idle]
    /\ callbacks = 0
    /\ \E imagePath \in ImagePaths :
          flow = [NoFlow EXCEPT !.msg = TelegramMessage("photo", <<>>),
                                !.pc = "extractTextFromImage",
                                !.filePath = imagePath]

NextExtract == \E copied \in BOOLEAN : ExtractTextFromImage(copied)

SpecExtract == InitExtract /\ [][NextExtract]_vars

\* ============================================================ properties
Did(hd, op) == \E i \in 1..Len(hd.calls) : hd.calls[i] = [op |-> op, ok |-> TRUE]
Failed(hd, op) == \E i \in 1..Len(hd.calls) : hd.calls[i] = [op |-> op, ok |-> FALSE]
Tried(hd, op) == Did(hd, op) \/ Failed(hd, op)
Approving(hd) == hd.kind \in ApprovalKinds
Range(seq) == {seq[i] : i \in 1..Len(seq)}

TypeOK ==
    /\ DOMAIN store \subseteq issued
    /\ issued \subseteq RecIds
    /\ edited \subseteq DOMAIN store
    /\ callbacks \in 0..MaxCallbacks
    /\ sheetsInitialized \in BOOLEAN
    /\ \A h \in Handlers :
          hs[h].pc \in {"idle", "findById", "save", "updateMessage", "sendMessage",
                        "initialize", "append", "openEditModal", "done"}

\* C1: in both approval transitions the calls run in the order save, card
\* update, delivery to the student, archive append, each attempted only after
\* the one before it succeeded; so whenever an answer has been sent, the
\* record is persisted with isApproved = TRUE.
C1_ApprovalOrder ==
    \A h \in Handlers :
        LET hd == hs[h] IN
        Approving(hd) =>
            /\ Tried(hd, "updateMessage") \/ hd.pc = "updateMessage" => Did(hd, "save")
            /\ Tried(hd, "sendMessage") \/ hd.pc = "sendMessage" => Did(hd, "updateMessage")
            /\ Tried(hd, "initialize") \/ Tried(hd, "append")
                  \/ hd.pc \in {"initialize", "append"} => Did(hd, "sendMessage")
            /\ hd.sent # <<>> =>
                  /\ hd.recordId \in DOMAIN store
                  /\ store[hd.recordId].isApproved
                  /\ hd.persisted # <<>> /\ hd.persisted[1].isApproved

\* C1 witness: an approve click has run all four calls.
C1_Witness ==
    \E h \in Handlers :
        /\ hs[h].kind = "approve" /\ hs[h].outcome = "ok"
        /\ Did(hs[h], "save") /\ hs[h].updated # <<>> /\ hs[h].sent # <<>> /\ hs[h].row # <<>>

\* C2: after an edit-form submission the document holds the submitted text as
\* editedAnswer with isApproved = TRUE, and for every submitted text, the
\* empty one included, the text sent to the student and the last column of
\* the archive row are that editedAnswer.
C2_EditRoundTrip ==
    \A h \in Handlers :
        LET hd == hs[h] IN
        hd.kind = "submit" /\ Did(hd, "save") =>
            /\ hd.doc.editedAnswer = hd.text /\ hd.doc.isApproved
            /\ hd.persisted[1].editedAnswer = hd.text /\ hd.persisted[1].isApproved
            /\ hd.sent # <<>> => hd.sent[1].text = hd.doc.editedAnswer
            /\ hd.row # <<>> => hd.row[1][5] = hd.doc.editedAnswer

\* C3: whatever callbacks came before, the record an approve click has saved
\* has isApproved = TRUE, editedAnswer = null, approvedAt set and approvedBy =
\* the id of the reviewer who clicked.
C3_Original ==
    \A h \in Handlers :
        LET hd == hs[h] IN
        hd.kind = "approve" /\ hd.persisted # <<>> =>
            /\ hd.persisted[1].isApproved
            /\ hd.persisted[1].editedAnswer = Null
            /\ hd.persisted[1].approvedAt # Null
            /\ hd.user # Undefined => hd.persisted[1].approvedBy = hd.user

\* C4: an approve click on an existing record R1 sends the student
\* R1.accountId the text R1.answer and appends one archive row whose answer
\* column and last column both hold R1.answer.
C4_ApproveDelivers ==
    /\ \A h \in Handlers :
          LET hd == hs[h] IN
          hd.kind = "approve" /\ hd.found =>
              /\ hd.recordId \in DOMAIN store
              /\ hd.sent # <<>> =>
                    /\ hd.sent[1] = [to |-> store[hd.recordId].accountId,
                                     text |-> store[hd.recordId].answer]
                    /\ hd.sent[1] \in Range(outbox)
              /\ hd.row # <<>> =>
                    /\ hd.row[1][4] = store[hd.recordId].answer
                    /\ hd.row[1][5] = store[hd.recordId].answer
                    /\ hd.row[1] \in Range(sheet)
              /\ hd.outcome = "ok" => hd.sent # <<>> /\ hd.row # <<>>
    /\ Len(sheet) <= callbacks

\* C4 witness: an approve click on a record with an edited answer has sent
\* the answer and appended its row.
C4_Witness ==
    \E h \in Handlers :
        /\ hs[h].kind = "approve" /\ hs[h].outcome = "ok"
        /\ hs[h].doc.editedAnswer = "e1"
        /\ hs[h].sent # <<>> /\ hs[h].row # <<>>

\* C5: the card an edit-form submission updates is the one at the channel and
\* ts of the submission's metadata, whatever the channel.
C5_MetadataTarget ==
    \A h \in Handlers :
        LET hd == hs[h] IN
        hd.kind = "submit" /\ hd.updated # <<>> =>
            hd.updated[1] = [channel |-> hd.channel, ts |-> hd.ts]

\* C6: a callback whose record id is not in the collection makes no call
\* after the lookup (no save, no card update, no modal, no message to a
\* student, no archive row), logs exactly one entry and returns.
C6_MissingRecordDropped ==
    \A h \in Handlers :
        LET hd == hs[h] IN
        hd.absent =>
            /\ hd.pc = "done"
            /\ Len(hd.log) = 1
            /\ Len(hd.calls) = 1 /\ hd.calls[1].op = "findById"
            /\ hd.persisted = <<>> /\ hd.updated = <<>> /\ hd.opened = <<>>
            /\ hd.sent = <<>> /\ hd.row = <<>>

\* C6 witness: an edit-form submission for an unknown record was dropped.
C6_Witness ==
    \E h \in Handlers :
        /\ hs[h].absent /\ hs[h].kind = "submit" /\ hs[h].outcome = "dropped"
        /\ hs[h].log = <<"error: Question record not found">>

\* C7: an approve click or a submission for a record that exists is never
\* dropped, approved or not: it goes on to the save, and when it runs to its
\* end the record was saved again, the answer sent again and another archive
\* row appended.
C7_ReEntry ==
    \A h \in Handlers :
        LET hd == hs[h] IN
        Approving(hd) /\ hd.found =>
            /\ hd.outcome # "dropped"
            /\ hd.pc # "done" \/ hd.outcome \in {"ok", "failed"}
            /\ hd.outcome = "ok" =>
                  /\ Did(hd, "save") /\ Did(hd, "updateMessage")
                  /\ hd.sent # <<>> /\ hd.sent[1] \in Range(outbox)
                  /\ hd.row # <<>> /\ hd.row[1] \in Range(sheet)

\* C7 witness: a callback that loaded the record approved has run to its end;
\* the student got two messages and the archive two rows.
C7_Witness ==
    \E h \in Handlers :
        /\ Approving(hs[h]) /\ hs[h].wasApproved /\ hs[h].outcome = "ok"
        /\ hs[h].before # <<>> /\ hs[h].before[1].isApproved
        /\ Len(outbox) = 2 /\ Len(sheet) = 2

\* C8: when the card update of an approval fails the handler goes on: the
\* answer is still sent and the archive append still attempted.
C8_CardFailureContinues ==
    \A h \in Handlers :
        LET hd == hs[h] IN
        Approving(hd) /\ Failed(hd, "updateMessage") /\ hd.pc = "done" =>
            /\ Tried(hd, "sendMessage")
            /\ Tried(hd, "initialize") \/ Tried(hd, "append")

\* C9: the step in which a call after the save fails leaves the collection as
\* it was (the approval fields the save wrote stay), ends the handler and
\* logs the handler's error entry last.
C9_NoRollback ==
    [][\A h \in Handlers :
          (/\ Approving(hs[h]) /\ Did(hs[h], "save")
           /\ hs[h].outcome = "" /\ hs'[h].outcome = "failed")
          => /\ store' = store
             /\ store'[hs[h].recordId].isApproved
             /\ store'[hs[h].recordId].approvedAt # Null
             /\ hs[h].kind = "submit" => hs[h].recordId \in edited'
             /\ hs'[h].pc = "done"
             /\ hs'[h].log[Len(hs'[h].log)] = ErrorPrefix(hs[h].kind)]_vars

\* C9 witness: a call after the save has failed and the record is approved.
C9_Witness ==
    \E h \in Handlers :
        /\ Approving(hs[h]) /\ Did(hs[h], "save") /\ hs[h].outcome = "failed"
        /\ store[hs[h].recordId] = hs[h].persisted[1]
        /\ store[hs[h].recordId].isApproved

\* C10: the archive is entered only after the answer was delivered, and an
\* archive failure (of the lazy initialization or of the append) ends the
\* handler with its error logged and the delivered message still delivered.
C10_ArchiveAfterDelivery ==
    \A h \in Handlers :
        LET hd == hs[h]
            archiveFailed == Failed(hd, "initialize") \/ Failed(hd, "append")
        IN
        Approving(hd) =>
            /\ Tried(hd, "initialize") \/ Tried(hd, "append")
                  \/ hd.pc \in {"initialize", "append"}
               => /\ Did(hd, "sendMessage")
                  /\ hd.sent # <<>> /\ hd.sent[1] \in Range(outbox)
            /\ archiveFailed =>
                  /\ hd.pc = "done" /\ hd.outcome = "failed"
                  /\ hd.log[Len(hd.log)] = ErrorPrefix(hd.kind)
                  /\ hd.row = <<>>

\* C10 witness: the lazy initialization failed after the answer was sent.
C10_Witness ==
    \E h \in Handlers :
        /\ Failed(hs[h], "initialize") /\ hs[h].sent # <<>>
        /\ hs[h].sent[1] \in Range(outbox) /\ hs[h].outcome = "failed"

\* C11: a record is mutated exactly once after its creation: the save of an
\* approval (plain or edit-and-approve) finds the record as it was created,
\* whatever callbacks came before; and no step removes a record.
C11_MutatedOnce ==
    /\ \A h \in Handlers :
          LET hd == hs[h] IN
          hd.persisted # <<>> =>
              hd.before[1] = NewQuestion(Inbound(hd.recordId).from,
                                         Inbound(hd.recordId).firstName,
                                         Inbound(hd.recordId).text,
                                         Inbound(hd.recordId).answer)
    /\ \A h \in Handlers : hs[h].found => hs[h].recordId \in DOMAIN store

\* C12: in every persisted state of every record, approvedAt and approvedBy
\* are non-null exactly when isApproved is TRUE, also for callbacks whose
\* payload carries no reviewer id.
C12_ApprovalFieldsIffApproved ==
    \A r \in DOMAIN store :
        (store[r].approvedAt # Null /\ store[r].approvedBy # Null)
            <=> store[r].isApproved

\* C13: in every persisted state of every record, editedAnswer is non-null
\* only if isApproved is TRUE and an edit-form submission was saved for it.
C13_EditedOnlyIfApproved ==
    /\ \A r \in DOMAIN store :
          store[r].editedAnswer # Null => store[r].isApproved /\ r \in edited
    /\ \A h \in Handlers :
          hs[h].persisted # <<>> /\ hs[h].persisted[1].editedAnswer # Null
              => hs[h].persisted[1].isApproved

\* C13 witness: a submission saved an edited answer on the record.
C13_Witness ==
    \E h \in Handlers :
        /\ hs[h].kind = "submit" /\ hs[h].persisted # <<>>
        /\ store[hs[h].recordId].editedAnswer = "e1"
        /\ store[hs[h].recordId].isApproved
        /\ hs[h].recordId \in edited

\* C14: once a record is persisted with isApproved = TRUE, no step sets
\* isApproved back to FALSE, clears approvedAt or clears approvedBy.
C14_ApprovedIsTerminal ==
    [][\A r \in DOMAIN store :
          store[r].isApproved =>
              /\ r \in DOMAIN store'
              /\ store'[r].isApproved
              /\ store[r].approvedAt # Null => store'[r].approvedAt # Null
              /\ store[r].approvedBy # Null => store'[r].approvedBy # Null]_vars

\* ----------------------------------------------------- intake properties
FullRequests == {i \in 1..Len(flow.requests) : flow.requests[i].request = "full"}
SimplifiedRequests == {i \in 1..Len(flow.requests) : flow.requests[i].request = "simplified"}
InGenerateAnswer == flow.pc \in {"timeout", "request", "simplifiedRequest"}
FlowFailed(step) == \E i \in 1..Len(flow.failed) : flow.failed[i] = step
Logged(entry) == \E i \in 1..Len(flow.log) : flow.log[i] = entry

\* C15: whatever the AI service does, generateAnswer resolves (it never
\* throws to its caller) and the value it resolves to is a non-empty string.
C15_NonEmptyAnswer ==
    flow.source # Null => flow.answer \notin {"", Undefined, Null}

\* C16: at most MaxRetries + 1 = 3 full-context requests are made and the
\* first success ends generateAnswer; one simplified request at most, made
\* only after three failed full-context requests; the fallback string only
\* after the simplified request failed too; never more than four requests.
C16_RequestBudget ==
    /\ MaxRetries + 1 = 3
    /\ Cardinality(FullRequests) <= MaxRetries + 1
    /\ Cardinality(SimplifiedRequests) <= 1
    /\ Len(flow.requests) <= 4
    /\ \A i \in 1..Len(flow.requests) :
          flow.requests[i].ok =>
              /\ i = Len(flow.requests)
              /\ ~InGenerateAnswer
              /\ flow.source = flow.requests[i].request
    /\ \A i \in SimplifiedRequests :
          /\ i = MaxRetries + 2
          /\ \A j \in 1..(i - 1) :
                flow.requests[j] = [request |-> "full", ok |-> FALSE]
    /\ flow.pc = "simplifiedRequest" =>
          /\ Cardinality(FullRequests) = MaxRetries + 1
          /\ \A j \in FullRequests : ~flow.requests[j].ok
    /\ flow.source = "fallback" =>
          /\ Len(flow.requests) = MaxRetries + 2
          /\ flow.requests[MaxRetries + 2] = [request |-> "simplified", ok |-> FALSE]
    /\ flow.source # Null => ~InGenerateAnswer

\* C16 witness: four requests failed and the fallback string was produced.
C16_Witness ==
    /\ flow.source = "fallback" /\ Len(flow.requests) = 4
    /\ Cardinality(FullRequests) = 3 /\ Cardinality(SimplifiedRequests) = 1

\* C17: the wait before full-context attempt n + 1 is RetryDelay * n: none
\* before the first attempt, 1000 ms before the second, 2000 ms before the
\* third, and none before the simplified request.
C17_LinearBackoff ==
    /\ Len(flow.waits) <= MaxRetries
    /\ \A i \in 1..Len(flow.waits) :
          /\ flow.waits[i].before = i + 1
          /\ flow.waits[i].ms = RetryDelay * i
          /\ flow.waits[i].ms = IF i = 1 THEN 1000 ELSE 2000
          /\ Len(flow.requests) >= i + 1 => flow.requests[i + 1].request = "full"
    /\ \A i \in FullRequests : i > 1 => Len(flow.waits) >= i - 1
    /\ flow.pc = "request" => Len(flow.waits) = Len(flow.requests)
    /\ flow.pc = "simplifiedRequest" => Len(flow.waits) = MaxRetries

\* C17 witness: both waits were awaited and the simplified request was made.
C17_Witness ==
    /\ Len(flow.waits) = 2 /\ flow.waits[2].ms = 2000
    /\ Cardinality(SimplifiedRequests) = 1

\* Letters c and d are the same up to case.
SameLetter(c, d) ==
    \/ c = d
    \/ \E k \in 1..Len(Uppers) : {c, d} = {Uppers[k], Lowers[k]}

\* s contains word, in any letter case.
ContainsAnyCase(s, word) ==
    \E i \in 0..(Len(s) - Len(word)) :
        \A j \in 1..Len(word) : SameLetter(s[i + j], word[j])

\* C18: the fallback response for a question that contains "equation" in any
\* letter case and no physics or chemistry keyword is the mathematics string;
\* for a question with no keyword of any bucket it is the generic string.
C18_FallbackRouting ==
    flow.source = "fallback" =>
        LET q == flow.question
            has(words) == \E w \in words : ContainsAnyCase(q, w)
        IN /\ ContainsAnyCase(q, <<"e", "q", "u", "a", "t", "i", "o", "n">>)
                 /\ ~has(PhysicsKeywords) /\ ~has(ChemistryKeywords)
              => flow.answer = MathFallback
           /\ ~has(MathKeywords) /\ ~has(PhysicsKeywords) /\ ~has(ChemistryKeywords)
              => flow.answer = GenericFallback
           /\ q = <<"W", "h", "a", "t", " ", "i", "s", " ", "2", "+", "2", "?">> => flow.answer = GenericFallback

\* C18 witness: the fallback for a question with EQUATION in capitals.
C18_Witness ==
    /\ flow.source = "fallback" /\ flow.answer = MathFallback
    /\ ~Includes(flow.question, <<"e", "q", "u", "a", "t", "i", "o", "n">>)
    /\ ContainsAnyCase(flow.question, <<"e", "q", "u", "a", "t", "i", "o", "n">>)

\* C19: the record created for a text question stores the question and
\* exactly the answer generateAnswer resolved to (the generic fallback string
\* when every request failed and the question has no keyword), unapproved;
\* the card posted afterwards shows that question and answer, and its approve
\* and edit buttons both carry the id of the record.
C19_RecordAndCard ==
    flow.msg.kind = "text" =>
        /\ flow.persisted =>
              /\ flow.id \in DOMAIN store
              /\ store[flow.id] = NewQuestion(flow.msg.userId, flow.msg.firstName,
                                              flow.msg.text, flow.answer)
              /\ ~store[flow.id].isApproved
              /\ flow.posted # <<>> =>
                    LET card == cards[flow.posted[1]] IN
                    /\ card.kind = "review"
                    /\ card.question = flow.msg.text
                    /\ card.text = store[flow.id].answer
                    /\ card.approve_button = flow.id
                    /\ card.edited_button = flow.id
        /\ flow.posted # <<>> => flow.pc \in {"acknowledge", "apology", "errorMessage", "done"}
        /\ (flow.source # Null /\ \A i \in 1..Len(flow.requests) : ~flow.requests[i].ok
              /\ flow.msg.text = <<"W", "h", "a", "t", " ", "i", "s", " ", "2", "+", "2", "?">>)
           => flow.answer = GenericFallback

\* C19 witness: every request failed for "What is 2+2?", the record holds the
\* generic fallback string and the card was posted.
C19_Witness ==
    /\ flow.msg.kind = "text" /\ flow.persisted /\ flow.posted # <<>>
    /\ flow.source = "fallback"
    /\ store[flow.id].answer = GenericFallback
    /\ cards[flow.posted[1]].text = GenericFallback

\* C20: when posting the review card fails, in the text or in the photo flow,
\* the failure is logged, the record created stays persisted and unapproved
\* and the flow goes on to the acknowledgment: when that is delivered it is
\* the only message the student gets.
C20_PostFailureNotFatal ==
    FlowFailed("sendQuestionForApproval") =>
        /\ Logged("error: Error sending to Slack")
        /\ flow.posted = <<>>
        /\ flow.persisted =>
              /\ flow.id \in DOMAIN store
              /\ ~store[flow.id].isApproved
              /\ store[flow.id].answer = flow.answer
        /\ flow.pc = "acknowledge" \/ FlowFailed("acknowledge")
              \/ flow.replies = <<[to |-> flow.msg.chatId,
                                   text |-> IF IsPhoto THEN AckImage ELSE AckText]>>
        /\ flow.pc = "apology" => FlowFailed("acknowledge")

\* C20 witness: the card of a photo question could not be posted and the
\* student got the acknowledgment.
C20_Witness ==
    /\ IsPhoto /\ FlowFailed("sendQuestionForApproval") /\ flow.persisted
    /\ flow.pc = "done" /\ flow.replies = <<[to |-> "c1", text |-> AckImage]>>

\* C21: when saving the new record fails, the failure is logged, a temporary
\* id that names no stored record takes the place of the record id, the flow
\* is not diverted to its catch block and goes on to the review card, which
\* carries the temporary id on both buttons when it is posted, and then to
\* the acknowledgment, which is the only message the student gets when it is
\* delivered.
C21_TempIdContinues ==
    Logged("error: Error saving to database") =>
        /\ flow.id = TempId
        /\ ~flow.persisted
        /\ TempId \notin DOMAIN store
        /\ ~FlowFailed("save")
        /\ flow.posted # <<>> =>
              LET card == cards[flow.posted[1]] IN
              /\ card.kind = "review"
              /\ card.question = flow.question
              /\ card.approve_button = TempId
              /\ card.edited_button = TempId
        /\ \/ flow.pc \in {"sendQuestionForApproval", "acknowledge"}
           \/ FlowFailed("acknowledge")
           \/ flow.replies = <<[to |-> flow.msg.chatId,
                                text |-> IF IsPhoto THEN AckImage ELSE AckText]>>

\* C21 witness: the save failed, the card was posted with the temporary id and
\* the acknowledgment was delivered.
C21_Witness ==
    /\ Logged("error: Error saving to database")
    /\ flow.pc = "done"
    /\ flow.posted # <<>>
    /\ cards[flow.posted[1]].approve_button = TempId
    /\ Len(flow.replies) = 1
    /\ flow.replies[1].text \in {AckText, AckImage}

\* C22: the catch block that sends the apology is reached only from the first
\* step of a flow (the typing indication, before step 1): a failure of any
\* later step (photo download, text extraction, answer generation, record
\* save, card post, acknowledgment, cleanup) never leads to the apology.
C22_ApologyOnlyFirstSteps ==
    flow.pc = "apology" => flow.failed[Len(flow.failed)] = "sendChatAction"

\* C23: a handler of an edit click calls nothing but findById and
\* openEditModal: it saves nothing, updates no card, sends nothing and
\* archives nothing, and none of its steps changes the collection, the
\* messages delivered or the archive, whether openEditModal succeeds or
\* fails; the form it opens shows the question of the record, has the answer
\* of the record as initial value, and its private metadata decodes to the
\* record id, the channel and the message timestamp of the click.
C23_EditRequestFrame ==
    [][\A h \in Handlers :
          LET hd == hs'[h] IN
          hd.kind = "edit" =>
              /\ hd.persisted = <<>> /\ hd.updated = <<>> /\ hd.sent = <<>> /\ hd.row = <<>>
              /\ \A i \in 1..Len(hd.calls) : hd.calls[i].op \in {"findById", "openEditModal"}
              /\ hd.opened # <<>> =>
                    /\ hd.opened[1].question = store'[hd.recordId].question
                    /\ hd.opened[1].initial_value = store'[hd.recordId].answer
                    /\ Metadata(hd.opened[1].private_metadata)
                          = [ok |-> TRUE, data_key |-> hd.recordId,
                             channel_id |-> hd.channel, message_ts |-> hd.ts]
                    /\ hd.opened[1] \in views'
              /\ (hs[h].kind = "edit" /\ hs[h] # hd) =>
                    /\ store' = store /\ outbox' = outbox /\ sheet' = sheet
                    /\ cards' = cards /\ edited' = edited
      ]_vars

\* C23 witness: an edit click on an existing record opened the form, and
\* another one failed to.
C23_Witness ==
    \E h \in Handlers :
        /\ hs[h].kind = "edit" /\ hs[h].pc = "done"
        /\ Tried(hs[h], "openEditModal") /\ ~Did(hs[h], "openEditModal")
        /\ views # {}

\* C24: the private metadata of a form openEditModal opened decodes, as
\* handleViewSubmission decodes it, to the record id, the channel id and the
\* message timestamp openEditModal was given, characters that JSON escapes
\* included, and findById of the decoded record id resolves to the record
\* the form was opened for; a submission that carries the metadata written
\* for a record id, a channel and a timestamp works on exactly these three.
C24_MetadataRoundTrip ==
    \A h \in Handlers :
        LET hd == hs[h] IN
        /\ (hd.kind = "edit" /\ hd.opened # <<>>) =>
              LET metadata == Metadata(hd.opened[1].private_metadata) IN
              /\ metadata.ok
              /\ metadata.data_key = hd.recordId
              /\ metadata.channel_id = hd.channel
              /\ metadata.message_ts = hd.ts
              /\ FindByIdResult(metadata.data_key) = <<store[hd.recordId]>>
        /\ hd.kind = "submit" =>
              \A recordId \in CallbackIds, channel \in CallbackChannels, ts \in Ts :
                  hd.private_metadata = PrivateMetadata(recordId, channel, ts) =>
                      /\ hd.recordId = recordId
                      /\ hd.channel = channel
                      /\ hd.ts = ts

\* C24 witness: the form opened from a click in a channel whose id has
\* characters JSON escapes was submitted, and the record was found.
C24_Witness ==
    \E h \in Handlers :
        /\ hs[h].kind = "submit" /\ hs[h].found /\ hs[h].channel = "Cq"
        /\ \E view \in views : view.private_metadata = hs[h].private_metadata

\* C26: the invocation for a payload whose type is neither block_actions nor
\* view_submission logs the type as a warning and is over: it looks up no
\* record, calls no service, and leaves the collection, the cards, the forms,
\* the messages delivered and the archive as they were.
C26_UnknownTypeIgnored ==
    [][\A h \in Handlers :
          LET hd == hs'[h] IN
          hd.kind = "unknown" =>
              /\ hd.pc = "done"
              /\ hd.log = <<"warn: Unknown Slack interaction type">>
              /\ hd.calls = <<>> /\ ~hd.found
              /\ hd.persisted = <<>> /\ hd.updated = <<>> /\ hd.sent = <<>>
              /\ hd.row = <<>> /\ hd.opened = <<>>
              /\ hs[h] # hd =>
                    /\ store' = store /\ cards' = cards /\ views' = views
                    /\ outbox' = outbox /\ sheet' = sheet /\ edited' = edited
      ]_vars

\* C26 witness: a payload of an unknown type arrived while a record was stored.
C26_Witness ==
    /\ DOMAIN store # {}
    /\ \E h \in Handlers : hs[h].kind = "unknown" /\ hs[h].outcome = "ignored"

\* C28: every invocation of handleInteraction has sent exactly one response,
\* with status 200, from its first step on, whatever its payload is.
C28_AlwaysAcknowledged ==
    \A h \in Handlers : hs[h].pc # "idle" => hs[h].responses = <<200>>

\* C30: a click or a submission that carries the temporary id resolves to no
\* record: the lookup is its only call and it fails, so nothing is saved,
\* no card is updated, no form is opened, nothing is sent and nothing is
\* archived; no record is stored under the temporary id.
C30_TempIdResolvesNothing ==
    /\ TempId \notin DOMAIN store
    /\ \A h \in Handlers :
          LET hd == hs[h] IN
          hd.recordId = TempId =>
              /\ hd.pc \in {"findById", "done"}
              /\ \A i \in 1..Len(hd.calls) : hd.calls[i] = [op |-> "findById", ok |-> FALSE]
              /\ ~hd.found /\ ~hd.doc.isApproved
              /\ hd.persisted = <<>> /\ hd.updated = <<>> /\ hd.sent = <<>>
              /\ hd.row = <<>> /\ hd.opened = <<>>

\* C30 witness: the save of a question failed, its card carries the temporary
\* id, and the approve click on that card is over.
C30_Witness ==
    /\ \E key \in DOMAIN cards : cards[key].approve_button = TempId
    /\ store = <<>>
    /\ \E h \in Handlers :
          /\ hs[h].kind = "approve" /\ hs[h].recordId = TempId /\ hs[h].pc = "done"
          /\ hs[h].ts \in {key[2] : key \in DOMAIN cards}

\* C29: initialize is run by at most one saveRecord call: no two invocations
\* are both in initialize or past it, whether the calls overlap or follow
\* each other.
C29_InitializeOnce ==
    \A g \in Handlers, h \in Handlers :
        g # h =>
            ~ /\ hs[g].pc = "initialize" \/ Tried(hs[g], "initialize")
              /\ hs[h].pc = "initialize" \/ Tried(hs[h], "initialize")

\* C27: for a path made of a directory, a file name and an extension,
\* extractTextFromImage returns the derivative prompt when the extension is
\* .jpg or .jpeg in any case, the circle prompt when it is .png in any case,
\* and the linear-equation prompt for every other extension or none; it
\* always returns: when its try block throws, the generic placeholder.
C27_MockExtraction ==
    flow.pc = "request" =>
        \A dir \in Directories, name \in FileNames, ext \in Extensions :
            flow.filePath = dir \o name \o ext =>
                \/ flow.question = MockFailureText
                      /\ Logged("error: Error in mock image processing")
                \/ /\ ~Logged("error: Error in mock image processing")
                   /\ flow.question =
                        IF ext \in {<<".", "j", "p", "g">>, <<".", "J", "P", "G">>, <<".", "j", "p", "e", "g">>, <<".", "J", "p", "e", "g">>} THEN JpgText
                        ELSE IF ext \in {<<".", "p", "n", "g">>, <<".", "P", "N", "G">>} THEN PngText
                        ELSE EquationText

\* C27 witness: the circle prompt was returned for a path that ends in .PNG.
C27_Witness ==
    /\ flow.pc = "request"
    /\ flow.filePath = <<"u", "p", ".", "l", "o", "a", "d", "/", "p", "h", "o", "t", "o", ".", "P", "N", "G">>
    /\ flow.question = PngText

\* The document a callback leaves when its handler runs alone on the record
\* as it was created.
Alone(hd) ==
    LET created == Created(hd.recordId)
        by == IF hd.user = Undefined THEN Null ELSE hd.user
    IN [accountId |-> created.accountId, accountName |-> created.accountName,
        question |-> created.question, answer |-> created.answer,
        editedAnswer |-> IF hd.kind = "submit" THEN hd.text ELSE Null,
        isApproved |-> TRUE, approvedAt |-> Date, approvedBy |-> by]

\* C25: when two callbacks for two different records are handled, in any
\* interleaving, each handler works on its own record only: what it saves,
\* the message it sends and the row it appends are what its callback
\* produces when it runs alone on the record as created, the card it
\* updates is the card of its record, and every record is either as it was
\* created or as its own callback left it.
C25_NoInterference ==
    /\ \A h \in Handlers :
          LET hd == hs[h]
              created == Created(hd.recordId)
              text == IF hd.kind = "submit" THEN hd.text ELSE created.answer
          IN
          hd.kind \in {"approve", "submit", "edit"} =>
              /\ hd.persisted # <<>> =>
                    /\ hd.before = <<created>>
                    /\ hd.persisted = <<Alone(hd)>>
                    /\ store[hd.recordId] = Alone(hd)
              /\ hd.persisted = <<>> => store[hd.recordId] = created
              /\ hd.updated # <<>> =>
                    hd.updated = <<[channel |-> SlackChannelId, ts |-> CardTs(hd.recordId)]>>
              /\ hd.sent # <<>> => hd.sent = <<[to |-> created.accountId, text |-> text]>>
              /\ hd.row # <<>> =>
                    hd.row = <<<<Date, created.accountName, created.question, created.answer,
                                 IF text = "" THEN created.answer ELSE text>>>>
              /\ hd.opened # <<>> =>
                    /\ hd.opened[1].question = created.question
                    /\ hd.opened[1].initial_value = created.answer
    /\ \A id \in RecIds :
          \/ store[id] = Created(id)
          \/ \E user \in UserIds, kind \in {"approve", "submit"}, text \in Texts :
                store[id] = Alone([recordId |-> id, user |-> user, kind |-> kind,
                                   text |-> text])

\* C25 witness: an approval of one record and a submission for the other are
\* in progress together, and both students have been sent their answer.
C25_Witness ==
    \E g \in Handlers, h \in Handlers :
        /\ hs[g].kind = "approve" /\ hs[h].kind = "submit"
        /\ hs[g].recordId # hs[h].recordId
        /\ hs[g].sent # <<>> /\ hs[h].sent # <<>>
        /\ Len(outbox) = 2 /\ outbox[1].to # outbox[2].to

\* C32: for one inbound message the student is delivered at most one reply
\* (the acknowledgment, an apology or the unsupported-type notice), whichever
\* steps and sends fail; once the acknowledgment is delivered the flow is
\* over and no apology follows it.
C32_AtMostOneReply ==
    /\ Len(flow.replies) <= 1
    /\ \A i \in 1..Len(flow.replies) :
          /\ flow.replies[i].to = flow.msg.chatId
          /\ flow.replies[i].text \in {AckText, AckImage} => flow.pc = "done"

\* C32 witness: the temporary file could not be unlinked after the
\* acknowledgment of a photo was delivered, and the flow is over with that
\* one reply.
C32_Witness ==
    /\ flow.pc = "done"
    /\ Logged("error: Error cleaning up file")
    /\ flow.replies = <<[to |-> flow.msg.chatId, text |-> AckImage]>>

\* C34: when the photo was downloaded, the temporary file is gone by the
\* time the photo flow is over, whichever later step failed, unless the
\* unlink itself failed.
C34_TempFileRemoved ==
    (flow.pc = "done" /\ IsPhoto /\ Logged("info: Downloaded photo")
        /\ ~Logged("error: Error cleaning up file"))
    => ~flow.tempFile

\* C33: in the photo flow the file handed to extractTextFromImage is the
\* file downloadPhoto wrote, whose name ends in .jpg whatever the extension
\* of the file Telegram holds; so the question extracted, stored and shown
\* on the card is the derivative prompt or the placeholder of a failed
\* extraction, never the circle or the linear-equation prompt.
C33_PhotoAlwaysJpg ==
    IsPhoto =>
        /\ flow.filePath # <<>> =>
              /\ Len(flow.filePath) > 4
              /\ SubSeq(flow.filePath, Len(flow.filePath) - 3, Len(flow.filePath))
                    = <<".", "j", "p", "g">>
        /\ flow.question # <<>> =>
              /\ flow.filePath # <<>>
              /\ flow.question \in {JpgText, MockFailureText}
              /\ flow.question \notin {PngText, EquationText}
        /\ flow.persisted => store[flow.id].question = flow.question
        /\ flow.posted # <<>> => cards[flow.posted[1]].question = flow.question

\* C33 witness: Telegram held a .png file, and the derivative prompt was
\* stored and posted as the question.
C33_Witness ==
    /\ IsPhoto
    /\ flow.fileUrl = FileUrl(<<"p", "h", "o", "t", "o", "s", "/", "f", ".", "p", "n", "g">>)
    /\ flow.persisted /\ flow.posted # <<>>
    /\ store[flow.id].question = JpgText
    /\ cards[flow.posted[1]].question = JpgText

\* C31: the answer a handler sends for a question goes to the chat the
\* question was asked in, the chat of the acknowledgment, also when the id
\* of that chat differs from the id of the sender.
C31_AnswerToSameChat ==
    \A h \in Handlers :
        hs[h].sent # <<>> => hs[h].sent[1].to = flow.msg.chatId

====
